---- MODULE Spec2Model ----
(***************************************************************************)
(* Arena / MyMapAllocator<T, Policy> / MyContainer<T, Allocator>.          *)
(*                                                                         *)
(* Arena.hpp       : Block, Arena::allocate_bytes, Arena::add_block        *)
(* MyMapAllocator  : AllocatorState, policy::Fixed, policy::Expandable,    *)
(*                   constructors, allocate, deallocate                    *)
(* MyContainer.hpp : push_front, push_back, pop_front, clear, copy         *)
(*                   construction, destruction                             *)
(*                                                                         *)
(* std::size_t is WordBits wide: every size_t expression of the source is  *)
(* reduced modulo SizeMod.  The free store has HeapBytes bytes, fewer than *)
(* SizeMod / 2, as on a real machine.                                      *)
(***************************************************************************)
EXTENDS Integers, Sequences, FiniteSets, TLC

\* ------------------------------------------------------------------ bounds
WordBits == 10
HeapBytes == 48
MaxHandles == 2
MaxArenas == 2
MaxContainers == 2

\* -------------------------------------------------------- platform values
NewAlign == 16
NULL == 0

SizeMod == 2 ^ WordBits
HeapBase == NewAlign
HeapEnd == HeapBase + HeapBytes

HandleIds == 1 .. MaxHandles
ContainerIds == 1 .. MaxContainers
ArenaIds == 1 .. MaxArenas
StateIds == 1 .. MaxArenas

Max(a, b) == IF a >= b THEN a ELSE b

\* ------------------------------------------------------------ element types
TypeNames == {"int", "Node", "BigAligned"}

SizeOf(T) == CASE T = "int" -> 4
               [] T = "Node" -> 16
               [] T = "BigAligned" -> 32

AlignOf(T) == CASE T = "int" -> 4
                [] T = "Node" -> 8
                [] T = "BigAligned" -> 32

\* ---------------------------------------------------------------- policies
Fixed(max, initial) == [max |-> max, initial |-> initial]
Expandable(initial) == [max |-> 0, initial |-> initial]

Policies == {Fixed(2, 1), Expandable(1)}

\* ------------------------------------------------------------------- state
VARIABLES
    arenas,     \* ArenaIds -> Arena object (blocks, block_size) and its shared_ptr use count
    states,     \* StateIds -> AllocatorState object and its shared_ptr use count
    handles,    \* HandleIds -> MyMapAllocator object (state_, arena_)
    granted,    \* ArenaIds -> the bytes of the regions allocate_bytes has returned
    brk,        \* the free store: the address ::operator new hands out next
    containers, \* ContainerIds -> MyContainer object (node_alloc_, head_, tail_, size_)
    mem,        \* address -> the Node object constructed there (sentinel_ included)
    pushed,     \* StateIds -> number of nodes the containers on that state have linked
    last        \* the last call and its outcome

vars == <<arenas, states, handles, granted, brk, containers, mem, pushed, last>>

NoArena == [live |-> FALSE, blocks |-> <<>>, block_size |-> 0, refs |-> 0]
NoState == [live |-> FALSE, max_elements_ |-> 0, allocated_ |-> 0, refs |-> 0]
NoHandle == [live |-> FALSE, T |-> "int", P |-> Expandable(1), state_ |-> NULL, arena_ |-> NULL]
NoCall == [op |-> "none", result |-> "none"]
NoContainer ==
    [live |-> FALSE, Allocator |-> "MyMapAllocator", node_alloc_ |-> NoHandle,
     head_ |-> NULL, tail_ |-> NULL, size_ |-> 0]
NoNode == [ok |-> FALSE, value |-> 0, next |-> NULL]

\* node_ptr_traits::pointer_to(sentinel_): the sentinel lives inside the container
Sentinel(c) == 0 - c

\* the local object of MyContainer tmp(other) in the copy assignment
TmpId == MaxContainers + 1

Addresses ==
    {Sentinel(c) : c \in ContainerIds \cup {TmpId}}
       \cup {x \in HeapBase .. HeapEnd : x % AlignOf("Node") = 0}

\* ------------------------------------------------- ::operator new / delete
ChunkSize(cap) == ((Max(cap, 1) + NewAlign - 1) \div NewAlign) * NewAlign

\* ::operator new(cap) at break address brk: the address of the new buffer, NULL
\* when the free store cannot supply cap bytes (std::bad_alloc).  The free store
\* hands out increasing addresses and does not reuse a deleted buffer.
OperatorNew(hp, cap) ==
    IF cap > HeapBytes \/ hp + ChunkSize(cap) > HeapEnd THEN NULL ELSE hp

Sbrk(hp, cap) == hp + ChunkSize(cap)

\* ------------------------------------------------------------------- Arena
Block(buffer, cap) == [buffer |-> buffer, used |-> 0, capacity |-> cap]

add_block_replacing_last(ars, a, buffer, cap) ==
    [ars EXCEPT ![a].blocks = <<Block(buffer, cap)>>]

\* blocks_.emplace_back(size)
add_block(ars, a, buffer, cap) ==
    [ars EXCEPT ![a].blocks = Append(@, Block(buffer, cap))]

RECURSIVE BitAnd(_, _)
BitAnd(x, y) ==
    IF x = 0 \/ y = 0 THEN 0
    ELSE (x % 2) * (y % 2) + 2 * BitAnd(x \div 2, y \div 2)

BadAlignment_zero_only(alignment) == alignment = 0

\* alignment == 0 || (alignment & (alignment - 1)) != 0
BadAlignment(alignment) ==
    alignment = 0 \/ BitAnd(alignment, (alignment - 1) % SizeMod) # 0

StdAlign_without_padding(alignment, size, ptr, space) ==
    IF space < size THEN [ok |-> FALSE, ptr |-> ptr, space |-> space]
    ELSE [ok |-> TRUE, ptr |-> ptr, space |-> space]

StdAlign_ignoring_size(alignment, size, ptr, space) ==
    LET aligned == ((ptr + alignment - 1) \div alignment) * alignment
        diff == aligned - ptr
    IN IF diff > space
       THEN [ok |-> FALSE, ptr |-> ptr, space |-> space]
       ELSE [ok |-> TRUE, ptr |-> aligned, space |-> space - diff]

\* std::align(alignment, size, ptr, space)
StdAlign(alignment, size, ptr, space) ==
    LET aligned == ((ptr + alignment - 1) \div alignment) * alignment
        diff == aligned - ptr
    IN IF space < size \/ diff > space - size
       THEN [ok |-> FALSE, ptr |-> ptr, space |-> space]
       ELSE [ok |-> TRUE, ptr |-> aligned, space |-> space - diff]

\* capacity of the Block appended when the current one cannot serve the request
GrowSize(block_size, size, alignment) ==
    Max(block_size, (size + alignment) % SizeMod)

BumpUsed_without_size(b, space, size) == (b.capacity - space) % SizeMod

\* b->used = b->capacity - space + size
BumpUsed(b, space, size) == (b.capacity - space + size) % SizeMod

\* the for (;;) loop of allocate_bytes
RECURSIVE allocate_loop(_, _, _, _, _)
allocate_loop(ars, hp, a, size, alignment) ==
    LET k == Len(ars[a].blocks)
        b == ars[a].blocks[k]
        r == StdAlign(alignment, size, b.buffer + b.used, b.capacity - b.used)
        cap == GrowSize(ars[a].block_size, size, alignment)
        buffer == OperatorNew(hp, cap)
    IN IF r.ok
       THEN [arenas |-> [ars EXCEPT ![a].blocks[k].used = BumpUsed(b, r.space, size)],
             brk |-> hp, result |-> "ok", ptr |-> r.ptr]
       ELSE IF buffer = NULL
            THEN [arenas |-> ars, brk |-> hp, result |-> "OutOfMemory", ptr |-> NULL]
            ELSE allocate_loop(add_block(ars, a, buffer, cap), Sbrk(hp, cap),
                               a, size, alignment)

allocate_bytes(ars, hp, a, size, alignment) ==
    IF BadAlignment(alignment)
    THEN [arenas |-> ars, brk |-> hp, result |-> "InvalidAlignment", ptr |-> NULL]
    ELSE allocate_loop(ars, hp, a, size, alignment)

\* ---------------------------------------------------- shared_ptr ownership
Acquire(objs, id) ==
    IF id = NULL THEN objs ELSE [objs EXCEPT ![id].refs = @ + 1]

ReleaseArena_by_any_owner(ars, id) ==
    IF id = NULL THEN ars ELSE [ars EXCEPT ![id] = NoArena]

ReleaseArena(ars, id) ==
    IF id = NULL THEN ars
    ELSE IF ars[id].refs = 1 THEN [ars EXCEPT ![id] = NoArena]
    ELSE [ars EXCEPT ![id].refs = @ - 1]

ReleaseState(sts, id) ==
    IF id = NULL THEN sts
    ELSE IF sts[id].refs = 1 THEN [sts EXCEPT ![id] = NoState]
    ELSE [sts EXCEPT ![id].refs = @ - 1]

\* the history of an Arena ends with the Arena
Forget(gr, ars) == [a \in ArenaIds |-> IF ars[a].live THEN gr[a] ELSE {}]

\* a new object takes the lowest unused name
FreeHandleId == CHOOSE h \in HandleIds : ~handles[h].live /\ \A g \in HandleIds : ~handles[g].live => h <= g
FreeArenaId == CHOOSE a \in ArenaIds : ~arenas[a].live /\ \A b \in ArenaIds : ~arenas[b].live => a <= b
FreeStateId == CHOOSE s \in StateIds : ~states[s].live /\ \A t \in StateIds : ~states[t].live => s <= t

\* ---------------------------------------------------------- MyMapAllocator
IsFixed_unconditional(P) == TRUE

\* if constexpr (MaxElements != 0)
IsFixed(P) == P.max # 0

\* AllocatorState(MaxElements) / AllocatorState()
AllocatorState(P) ==
    [live |-> TRUE, max_elements_ |-> IF P.max > 0 THEN P.max ELSE 0,
     allocated_ |-> 0, refs |-> 1]

ArenaBytes_from_max(T, P) == ((IF P.max # 0 THEN P.max ELSE P.initial) * SizeOf(T)) % SizeMod

\* arena_bytes = Initial * sizeof(T)
ArenaBytes(T, P) == (P.initial * SizeOf(T)) % SizeMod

CeilingExceeded_ignoring_n(st, n) == st.allocated_ > st.max_elements_

\* state_->allocated_ + n > state_->max_elements_
CeilingExceeded(st, n) == (st.allocated_ + n) % SizeMod > st.max_elements_

\* n * sizeof(T)
RequestBytes(T, n) == (n * SizeOf(T)) % SizeMod

Grant_forgetting(st, n) == st

\* state_->allocated_ += n
Grant(st, n) == [st EXCEPT !.allocated_ = (@ + n) % SizeMod]

allocate_checking_late(ars, sts, hp, hd, n) ==
    LET r == allocate_bytes(ars, hp, hd.arena_, RequestBytes(hd.T, n), AlignOf(hd.T))
    IN IF IsFixed(hd.P) /\ CeilingExceeded(sts[hd.state_], n)
       THEN [arenas |-> r.arenas, states |-> sts, brk |-> r.brk,
             result |-> "AllocationExceeded", ptr |-> NULL, size |-> RequestBytes(hd.T, n)]
       ELSE [arenas |-> r.arenas,
             states |-> IF r.result = "ok"
                        THEN [sts EXCEPT ![hd.state_] = Grant(@, n)] ELSE sts,
             brk |-> r.brk, result |-> r.result, ptr |-> r.ptr,
             size |-> RequestBytes(hd.T, n)]

allocate_counting_bytes(ars, sts, hp, hd, n) ==
    IF IsFixed(hd.P) /\ CeilingExceeded(sts[hd.state_], RequestBytes(hd.T, n))
    THEN [arenas |-> ars, states |-> sts, brk |-> hp, result |-> "AllocationExceeded",
          ptr |-> NULL, size |-> RequestBytes(hd.T, n)]
    ELSE LET r == allocate_bytes(ars, hp, hd.arena_, RequestBytes(hd.T, n), AlignOf(hd.T))
         IN [arenas |-> r.arenas,
             states |-> IF r.result = "ok"
                        THEN [sts EXCEPT ![hd.state_] = Grant(@, RequestBytes(hd.T, n))]
                        ELSE sts,
             brk |-> r.brk, result |-> r.result, ptr |-> r.ptr,
             size |-> RequestBytes(hd.T, n)]

\* MyMapAllocator::allocate(n) through the handle hd
allocate(ars, sts, hp, hd, n) ==
    IF IsFixed(hd.P) /\ CeilingExceeded(sts[hd.state_], n)
    THEN [arenas |-> ars, states |-> sts, brk |-> hp, result |-> "AllocationExceeded",
          ptr |-> NULL, size |-> RequestBytes(hd.T, n)]
    ELSE LET r == allocate_bytes(ars, hp, hd.arena_, RequestBytes(hd.T, n), AlignOf(hd.T))
         IN [arenas |-> r.arenas,
             states |-> IF r.result = "ok"
                        THEN [sts EXCEPT ![hd.state_] = Grant(@, n)] ELSE sts,
             brk |-> r.brk, result |-> r.result, ptr |-> r.ptr,
             size |-> RequestBytes(hd.T, n)]

deallocate_returning_budget(ars, sts, hd, p, n) ==
    [arenas |-> ars,
     states |-> [sts EXCEPT ![hd.state_].allocated_ = IF @ >= n THEN @ - n ELSE 0]]

\* MyMapAllocator::deallocate(T*, std::size_t) noexcept {}
deallocate(ars, sts, hd, p, n) == [arenas |-> ars, states |-> sts]

Equals_by_policy(hd, other) == hd.P = other.P

\* bool operator==(const MyMapAllocator& other) const noexcept
Equals(hd, other) == hd.arena_ = other.arena_

\* the bytes [ptr, ptr + size) of a returned region
Region(ptr, size) == {x \in HeapBase .. HeapEnd : ptr <= x /\ x < ptr + size}

\* the bytes an Arena has handed out so far
Record(gr, a, r) ==
    IF r.result = "ok" THEN [gr EXCEPT ![a] = @ \cup Region(r.ptr, r.size)] ELSE gr

\* ------------------------------------------------------------- MyContainer
\* Everything a container operation reads and writes.
World ==
    [arenas |-> arenas, states |-> states, brk |-> brk, granted |-> granted,
     containers |-> containers, mem |-> mem, pushed |-> pushed]

\* Node(node_pointer n, Args&&... args) followed by p->next = nullptr
Node(value) == [ok |-> TRUE, value |-> value, next |-> NULL]

\* x lies in a Block of the Arena ar
InArena(ar, x) ==
    \E i \in DOMAIN ar.blocks :
       ar.blocks[i].buffer <= x /\ x < ar.blocks[i].buffer + ar.blocks[i].capacity

\* ~Block(): objects in a deleted buffer are gone
Sweep(m, before, after) ==
    [x \in Addresses |->
       IF \E a \in ArenaIds : before[a].live /\ ~after[a].live /\ InArena(before[a], x)
       THEN NoNode ELSE m[x]]

\* the counters of an AllocatorState end with it
ForgetPushed(pu, sts) == [s \in StateIds |-> IF sts[s].live THEN pu[s] ELSE 0]

\* the Allocator parameter of MyContainer<T, Allocator>
Allocators == {"MyMapAllocator", "std::allocator", "std::pmr::polymorphic_allocator"}

\* std::allocator<Node>: no members
StdAllocator == [live |-> TRUE, T |-> "Node", P |-> NoHandle.P, state_ |-> NULL, arena_ |-> NULL]

\* std::pmr::polymorphic_allocator<Node> over the memory resource r; the
\* resources take their memory from ::operator new and are equal to
\* themselves only
PmrAllocator(r) ==
    [live |-> TRUE, T |-> "Node", P |-> NoHandle.P, state_ |-> NULL, arena_ |-> NULL,
     memory_rsrc |-> r]

\* std::pmr::get_default_resource()
DefaultResource == 1

\* node_traits_t::select_on_container_copy_construction(other.node_alloc_):
\* MyMapAllocator and std::allocator do not declare it, so the allocator is
\* copied; std::pmr::polymorphic_allocator returns an allocator over the default
\* resource
select_on_container_copy_construction(hd) ==
    IF "memory_rsrc" \in DOMAIN hd THEN PmrAllocator(DefaultResource) ELSE hd

\* node_traits_t::allocate(node_alloc_, 1).  std::allocator and the memory
\* resources take the node from ::operator new; a MyMapAllocator that was moved
\* from has null state_ and arena_, and allocate dereferences them
node_allocate(w, A, hd) ==
    IF A # "MyMapAllocator"
    THEN LET buffer == OperatorNew(w.brk, SizeOf("Node"))
         IN [arenas |-> w.arenas, states |-> w.states,
             brk |-> IF buffer = NULL THEN w.brk ELSE Sbrk(w.brk, SizeOf("Node")),
             result |-> IF buffer = NULL THEN "OutOfMemory" ELSE "ok",
             ptr |-> buffer, size |-> SizeOf("Node")]
    ELSE IF hd.state_ = NULL \/ hd.arena_ = NULL
         THEN [arenas |-> w.arenas, states |-> w.states, brk |-> w.brk,
               result |-> "undefined", ptr |-> NULL, size |-> 0]
         ELSE allocate(w.arenas, w.states, w.brk, hd, 1)

\* node_traits_t::deallocate(node_alloc_, p, 1).  std::allocator hands the node
\* to ::operator delete, and the free store does not reuse it
node_deallocate(w, A, hd, p) ==
    IF A # "MyMapAllocator" THEN [arenas |-> w.arenas, states |-> w.states]
    ELSE deallocate(w.arenas, w.states, hd, p, 1)

\* bool empty() const noexcept
empty(w, c) == w.containers[c].head_ = Sentinel(c)

\* create_node once node_traits_t::allocate(node_alloc_, 1) has answered r
construct_at(w, hd, value, r) ==
    IF r.result # "ok"
    THEN [w |-> [w EXCEPT !.arenas = r.arenas, !.brk = r.brk],
          result |-> r.result, p |-> NULL]
    ELSE [w |-> [w EXCEPT !.arenas = r.arenas, !.states = r.states, !.brk = r.brk,
                          !.granted = IF hd.arena_ = NULL THEN @
                                      ELSE Record(w.granted, hd.arena_, r),
                          !.mem[r.ptr] = Node(value)],
          result |-> "ok", p |-> r.ptr]

\* node_pointer create_node(Args&&... args)
create_node(w, c, value) ==
    construct_at(w, w.containers[c].node_alloc_, value,
                 node_allocate(w, w.containers[c].Allocator, w.containers[c].node_alloc_))

\* void destroy_node(node_pointer p) noexcept
destroy_node(w, c, p) ==
    LET r == node_deallocate(w, w.containers[c].Allocator, w.containers[c].node_alloc_, p)
    IN [w EXCEPT !.mem[p] = NoNode, !.arenas = r.arenas, !.states = r.states]

\* ++size_ ; the ghost count of linked nodes follows it
Linked(w, c) ==
    [w EXCEPT !.containers[c].size_ = (@ + 1) % SizeMod,
              !.pushed = IF w.containers[c].node_alloc_.state_ = NULL THEN @
                         ELSE [@ EXCEPT ![w.containers[c].node_alloc_.state_] = @ + 1]]

\* push_front once create_node has answered cn
link_front(cn, c) ==
    LET n == cn.p
    IN IF cn.result # "ok" THEN [w |-> cn.w, result |-> cn.result]
       ELSE IF empty(cn.w, c)
            THEN [w |-> Linked([cn.w EXCEPT !.mem[n].next = Sentinel(c),
                                            !.containers[c].head_ = n,
                                            !.containers[c].tail_ = n], c),
                  result |-> "ok"]
            ELSE [w |-> Linked([cn.w EXCEPT !.mem[n].next = cn.w.containers[c].head_,
                                            !.containers[c].head_ = n], c),
                  result |-> "ok"]

\* void push_front(const T& value)
push_front(w, c, value) == link_front(create_node(w, c, value), c)

link_back_counting_failures(cn, c) ==
    IF cn.result # "ok" THEN [w |-> Linked(cn.w, c), result |-> cn.result]
    ELSE [w |-> Linked([cn.w EXCEPT !.mem[cn.p].next = Sentinel(c),
                                    !.containers[c].head_ = cn.p,
                                    !.containers[c].tail_ = cn.p], c),
          result |-> "ok"]

\* push_back once create_node has answered cn
link_back(cn, c) ==
    LET n == cn.p
        w1 == [cn.w EXCEPT !.mem[n].next = Sentinel(c)]
    IN IF cn.result # "ok" THEN [w |-> cn.w, result |-> cn.result]
       ELSE IF empty(w1, c)
            THEN [w |-> Linked([w1 EXCEPT !.containers[c].head_ = n,
                                          !.containers[c].tail_ = n], c),
                  result |-> "ok"]
            ELSE [w |-> Linked([w1 EXCEPT !.mem[w1.containers[c].tail_].next = n,
                                          !.containers[c].tail_ = n], c),
                  result |-> "ok"]

push_back_at_front(w, c, value) == push_front(w, c, value)

\* void push_back(const T& value)
push_back(w, c, value) == link_back(create_node(w, c, value), c)

pop_front_without_check(w, c) ==
    LET old == w.containers[c].head_
        head == w.mem[old].next
        w1 == [w EXCEPT !.containers[c].head_ = head,
                        !.containers[c].tail_ =
                            IF head = Sentinel(c) THEN Sentinel(c) ELSE @]
        w2 == destroy_node(w1, c, old)
    IN [w2 EXCEPT !.containers[c].size_ = (@ - 1) % SizeMod]

\* void pop_front()
pop_front(w, c) ==
    IF empty(w, c) THEN w
    ELSE LET old == w.containers[c].head_
             head == w.mem[old].next
             w1 == [w EXCEPT !.containers[c].head_ = head,
                             !.containers[c].tail_ =
                                 IF head = Sentinel(c) THEN Sentinel(c) ELSE @]
             w2 == destroy_node(w1, c, old)
         IN [w2 EXCEPT !.containers[c].size_ = (@ - 1) % SizeMod]

\* void clear() noexcept
RECURSIVE clear(_, _)
clear(w, c) == IF empty(w, c) THEN w ELSE clear(pop_front(w, c), c)

\* the member initialisers and first statements every constructor shares
NewContainer(w, c, A, hd) ==
    [w EXCEPT !.containers[c] =
                 [live |-> TRUE, Allocator |-> A, node_alloc_ |-> hd,
                  head_ |-> Sentinel(c), tail_ |-> Sentinel(c), size_ |-> 0],
              !.mem[Sentinel(c)] = [ok |-> TRUE, value |-> 0, next |-> Sentinel(c)]]

\* the members of a container go: node_alloc_ gives up its shares
DropContainer(w, c) ==
    LET hd == w.containers[c].node_alloc_
        sts == ReleaseState(w.states, hd.state_)
        ars == ReleaseArena(w.arenas, hd.arena_)
    IN [w EXCEPT !.containers[c] = NoContainer,
                 !.states = sts, !.arenas = ars,
                 !.granted = Forget(w.granted, ars),
                 !.pushed = ForgetPushed(w.pushed, sts),
                 !.mem = [Sweep(w.mem, w.arenas, ars) EXCEPT ![Sentinel(c)] = NoNode]]

\* for (auto it = other.begin(); it != other.end(); ++it) push_back(*it);
RECURSIVE copy_loop(_, _, _, _)
\* ++it after push_back(*it) has answered r
copy_next(r, c, it, stop) ==
    IF r.result # "ok" THEN r ELSE copy_loop(r.w, c, r.w.mem[it].next, stop)

\* *it and ++it read the node it points at: no object there, no defined result
copy_loop(w, c, it, stop) ==
    IF it = stop THEN [w |-> w, result |-> "ok"]
    ELSE IF ~w.mem[it].ok THEN [w |-> w, result |-> "undefined"]
    ELSE copy_next(push_back(w, c, w.mem[it].value), c, it, stop)

\* MyContainer(const MyContainer& other); an exception leaving the body
\* destroys the members, the nodes linked so far stay in the Arena
unwind(r, c) ==
    IF r.result = "ok" THEN r ELSE [w |-> DropContainer(r.w, c), result |-> r.result]

copy_construct(w, c, other) ==
    LET hd == select_on_container_copy_construction(w.containers[other].node_alloc_)
    IN unwind(copy_loop(NewContainer([w EXCEPT !.states = Acquire(w.states, hd.state_),
                                               !.arenas = Acquire(w.arenas, hd.arena_)],
                                     c, w.containers[other].Allocator, hd),
                        c, w.containers[other].head_, Sentinel(other)), c)

\* ~MyContainer() { clear(); } and then the members
destroy(w, c) == DropContainer(clear(w, c), c)

\* ----------------------------------------- MyContainer: move, assign, swap
\* std::allocator_traits<node_allocator_t>
propagate_on_container_copy_assignment(A) == A = "MyMapAllocator"
propagate_on_container_move_assignment(A) == A \in {"MyMapAllocator", "std::allocator"}
propagate_on_container_swap(A) == A = "MyMapAllocator"
is_always_equal(A) == A = "std::allocator"

\* node_alloc_ == other.node_alloc_
alloc_equal(A, hd, other) ==
    IF is_always_equal(A) THEN TRUE
    ELSE IF A = "std::pmr::polymorphic_allocator" THEN hd.memory_rsrc = other.memory_rsrc
    ELSE Equals(hd, other)

\* what std::move(other.node_alloc_) leaves in other.node_alloc_: the implicit
\* move constructor of MyMapAllocator moves both shared_ptr members out
MovedFrom(A, hd) ==
    IF A # "MyMapAllocator" THEN hd ELSE [hd EXCEPT !.state_ = NULL, !.arena_ = NULL]

\* an outcome after which the program has no defined behaviour, has ended or
\* was never built
Fatal == {"undefined", "terminate", "ill-formed", "IllegalSwap"}

\* an exception leaves a noexcept function: std::terminate
noexcept(r) ==
    IF r.result \in {"AllocationExceeded", "OutOfMemory"}
    THEN [w |-> r.w, result |-> "terminate"] ELSE r

\* p points at a node that create_node made and nobody destroyed
IsNode(w, p) == p >= HeapBase /\ w.mem[p].ok

\* pop_front destroys the node head_ points at
pop_front_defined(w, c) == empty(w, c) \/ IsNode(w, w.containers[c].head_)

\* clear pops until head_ is the container's own sentinel
RECURSIVE chain_of_nodes(_, _, _, _)
chain_of_nodes(w, p, stop, fuel) ==
    \/ p = stop
    \/ /\ fuel > 0 /\ IsNode(w, p)
       /\ chain_of_nodes(w, w.mem[p].next, stop, fuel - 1)

clear_defined(w, c) ==
    chain_of_nodes(w, w.containers[c].head_, Sentinel(c), Cardinality(Addresses))

\* push_back writes tail_->next unless the container is empty
push_back_defined(w, c) == empty(w, c) \/ w.mem[w.containers[c].tail_].ok

\* head_ = other.head_; tail_ = other.tail_; size_ = other.size_;
\* other.head_ = other.tail_ = other.sentinel_ptr_; other.size_ = 0;
steal(w, c, other) ==
    [w EXCEPT !.containers[c].head_ = w.containers[other].head_,
              !.containers[c].tail_ = w.containers[other].tail_,
              !.containers[c].size_ = w.containers[other].size_,
              !.containers[other].head_ = Sentinel(other),
              !.containers[other].tail_ = Sentinel(other),
              !.containers[other].size_ = 0]

\* other.clear() after the elements were pushed one by one
clear_source(r, other) ==
    IF r.result # "ok" THEN r
    ELSE IF ~clear_defined(r.w, other) THEN [w |-> r.w, result |-> "undefined"]
    ELSE [w |-> clear(r.w, other), result |-> "ok"]

\* for (auto& v : other) push_back(std::move(v)); other.clear();
move_elements(w, c, other) ==
    clear_source(copy_loop(w, c, w.containers[other].head_, Sentinel(other)), other)

\* MyContainer(MyContainer&& other) noexcept
move_construct(w, c, other) ==
    LET A == w.containers[other].Allocator
        hd == w.containers[other].node_alloc_
        w1 == NewContainer([w EXCEPT !.containers[other].node_alloc_ = MovedFrom(A, hd)],
                           c, A, hd)
    IN IF alloc_equal(A, hd, MovedFrom(A, hd))
       THEN [w |-> steal(w1, c, other), result |-> "ok"]
       ELSE noexcept(move_elements(w1, c, other))

\* node_alloc_ = hd: the shares node_alloc_ held are given up
set_alloc(w, c, hd) ==
    LET old == w.containers[c].node_alloc_
        sts == ReleaseState(w.states, old.state_)
        ars == ReleaseArena(w.arenas, old.arena_)
    IN [w EXCEPT !.containers[c].node_alloc_ = hd,
                 !.states = sts, !.arenas = ars,
                 !.granted = Forget(w.granted, ars),
                 !.pushed = ForgetPushed(w.pushed, sts),
                 !.mem = Sweep(w.mem, w.arenas, ars)]

\* node_alloc_ = std::move(other.node_alloc_)
move_alloc(w, c, other) ==
    LET A == w.containers[other].Allocator
        hd == w.containers[other].node_alloc_
    IN set_alloc([w EXCEPT !.containers[other].node_alloc_ = MovedFrom(A, hd)], c, hd)

\* node_alloc_ = other.node_alloc_
copy_alloc(w, c, other) ==
    LET hd == w.containers[other].node_alloc_
    IN set_alloc([w EXCEPT !.states = Acquire(w.states, hd.state_),
                           !.arenas = Acquire(w.arenas, hd.arena_)], c, hd)

\* MyContainer& operator=(MyContainer&& other); both allocator types propagate
\* on move assignment, so the if constexpr keeps the first branch only
move_assign(w, c, other) ==
    IF c = other THEN [w |-> w, result |-> "ok"]
    ELSE IF ~clear_defined(w, c) THEN [w |-> w, result |-> "undefined"]
    ELSE [w |-> steal(move_alloc(clear(w, c), c, other), c, other), result |-> "ok"]

\* std::swap of the members named
swap_members(w, c, other, with_alloc) ==
    [w EXCEPT !.containers[c] =
                 [@ EXCEPT !.node_alloc_ = IF with_alloc
                                           THEN w.containers[other].node_alloc_ ELSE @,
                           !.head_ = w.containers[other].head_,
                           !.tail_ = w.containers[other].tail_,
                           !.size_ = w.containers[other].size_],
              !.containers[other] =
                 [@ EXCEPT !.node_alloc_ = IF with_alloc
                                           THEN w.containers[c].node_alloc_ ELSE @,
                           !.head_ = w.containers[c].head_,
                           !.tail_ = w.containers[c].tail_,
                           !.size_ = w.containers[c].size_]]

\* void swap(MyContainer& other) noexcept(...)
swap(w, c, other) ==
    IF c = other THEN [w |-> w, result |-> "ok"]
    ELSE IF propagate_on_container_swap(w.containers[c].Allocator)
         THEN [w |-> swap_members(w, c, other, TRUE), result |-> "ok"]
         ELSE IF alloc_equal(w.containers[c].Allocator, w.containers[c].node_alloc_,
                             w.containers[other].node_alloc_)
              THEN [w |-> swap_members(w, c, other, FALSE), result |-> "ok"]
              ELSE [w |-> w, result |-> "assert(false)"]


\* <cassert>: with NDEBUG defined assert(e) is ((void)0), without it a false
\* e ends the program
Configurations == {"Debug", "NDEBUG"}

assert(config, r) ==
    IF r.result # "assert(false)" THEN r
    ELSE [w |-> r.w, result |-> IF config = "NDEBUG" THEN "ok" ELSE "IllegalSwap"]

\* ~tmp at the end of the branch, once swap(tmp) has answered r
destroy_tmp(r) ==
    IF r.result # "ok" THEN r
    ELSE IF ~clear_defined(r.w, TmpId) THEN [w |-> r.w, result |-> "undefined"]
    ELSE [w |-> destroy(r.w, TmpId), result |-> "ok"]

\* MyContainer tmp(other); swap(tmp); once the copy constructor has answered r
swap_in(r, c, config) ==
    IF r.result # "ok" THEN r
    ELSE destroy_tmp(assert(config, swap(r.w, c, TmpId)))

\* clear(); for (const auto& v : other) push_back(v);
clear_and_copy(w, c, other) ==
    IF ~clear_defined(w, c) THEN [w |-> w, result |-> "undefined"]
    ELSE copy_loop(clear(w, c), c, w.containers[other].head_, Sentinel(other))

\* clear(); node_alloc_ = other.node_alloc_; for (const auto& v : other) push_back(v);
clear_propagate_and_copy(w, c, other) ==
    IF ~clear_defined(w, c) THEN [w |-> w, result |-> "undefined"]
    ELSE copy_loop(copy_alloc(clear(w, c), c, other), c,
                   w.containers[other].head_, Sentinel(other))

\* MyContainer& operator=(const MyContainer& other)
copy_assign(w, c, other, config) ==
    IF c = other THEN [w |-> w, result |-> "ok"]
    ELSE IF propagate_on_container_copy_assignment(w.containers[c].Allocator)
         THEN clear_propagate_and_copy(w, c, other)
         ELSE IF alloc_equal(w.containers[c].Allocator, w.containers[c].node_alloc_,
                             w.containers[other].node_alloc_)
              THEN clear_and_copy(w, c, other)
              ELSE swap_in(copy_construct(w, TmpId, other), c, config)

\* ----------------------------------------------------------------- inputs
Counts == {1, 2, SizeMod - 1}
ConstructTypes == {"int"}
HandleTypes == {"int", "Node"}
Pointers == {NULL, HeapBase}

\* ----------------------------------------------------------------- actions
Init ==
    /\ arenas = [a \in ArenaIds |-> NoArena]
    /\ states = [s \in StateIds |-> NoState]
    /\ handles = [h \in HandleIds |-> NoHandle]
    /\ granted = [a \in ArenaIds |-> {}]
    /\ brk = HeapBase
    /\ containers = [c \in ContainerIds \cup {TmpId} |-> NoContainer]
    /\ mem = [x \in Addresses |-> NoNode]
    /\ pushed = [s \in StateIds |-> 0]
    /\ last = NoCall

\* MyMapAllocator<T, Policy>::MyMapAllocator()
Construct(h, T, P) ==
    /\ ~handles[h].live /\ h = FreeHandleId
    /\ \E a \in ArenaIds : ~arenas[a].live
    /\ \E s \in StateIds : ~states[s].live
    /\ LET buffer == OperatorNew(brk, ArenaBytes(T, P))
           a == FreeArenaId
           s == FreeStateId
       IN IF buffer = NULL
          THEN /\ last' = [op |-> "construct", result |-> "OutOfMemory"]
               /\ UNCHANGED <<arenas, states, handles, granted, brk, containers, mem, pushed>>
          ELSE /\ arenas' = add_block([arenas EXCEPT ![a] =
                                [live |-> TRUE, blocks |-> <<>>,
                                 block_size |-> ArenaBytes(T, P), refs |-> 1]],
                              a, buffer, ArenaBytes(T, P))
               /\ states' = [states EXCEPT ![s] = AllocatorState(P)]
               /\ handles' = [handles EXCEPT ![h] =
                                [live |-> TRUE, T |-> T, P |-> P, state_ |-> s, arena_ |-> a]]
               /\ brk' = Sbrk(brk, ArenaBytes(T, P))
               /\ last' = [op |-> "construct", result |-> "ok"]
               /\ UNCHANGED <<granted, containers, mem, pushed>>

\* implicit copy constructor: auto alloc2 = alloc1
CopyConstruct(h, g) ==
    /\ ~handles[h].live /\ h = FreeHandleId /\ handles[g].live
    /\ handles' = [handles EXCEPT ![h] = handles[g]]
    /\ states' = Acquire(states, handles[g].state_)
    /\ arenas' = Acquire(arenas, handles[g].arena_)
    /\ last' = NoCall
    /\ UNCHANGED <<granted, brk, containers, mem, pushed>>

\* a converting constructor that copies the counters instead of sharing them
Rebind_copying_counters(h, g, T) ==
    /\ ~handles[h].live /\ h = FreeHandleId /\ handles[g].live /\ handles[g].T # T
    /\ \E s \in StateIds : ~states[s].live
    /\ handles' = [handles EXCEPT ![h] =
                     [live |-> TRUE, T |-> T, P |-> handles[g].P,
                      state_ |-> FreeStateId, arena_ |-> handles[g].arena_]]
    /\ states' = [states EXCEPT ![FreeStateId] = [states[handles[g].state_] EXCEPT !.refs = 1]]
    /\ arenas' = Acquire(arenas, handles[g].arena_)
    /\ last' = NoCall
    /\ UNCHANGED <<granted, brk, containers, mem, pushed>>

\* converting constructor: MyMapAllocator(const MyMapAllocator<U, Policy>&)
Rebind(h, g, T) ==
    /\ ~handles[h].live /\ h = FreeHandleId /\ handles[g].live /\ handles[g].T # T
    /\ handles' = [handles EXCEPT ![h] =
                     [live |-> TRUE, T |-> T, P |-> handles[g].P,
                      state_ |-> handles[g].state_, arena_ |-> handles[g].arena_]]
    /\ states' = Acquire(states, handles[g].state_)
    /\ arenas' = Acquire(arenas, handles[g].arena_)
    /\ last' = NoCall
    /\ UNCHANGED <<granted, brk, containers, mem, pushed>>

\* implicit copy assignment: alloc1 = alloc2
CopyAssign(h, g) ==
    /\ handles[h].live /\ handles[g].live /\ h # g
    /\ handles[h].T = handles[g].T /\ handles[h].P = handles[g].P
    /\ handles' = [handles EXCEPT ![h].state_ = handles[g].state_,
                                  ![h].arena_ = handles[g].arena_]
    /\ states' = ReleaseState(Acquire(states, handles[g].state_), handles[h].state_)
    /\ arenas' = ReleaseArena(Acquire(arenas, handles[g].arena_), handles[h].arena_)
    /\ granted' = Forget(granted, arenas')
    /\ last' = NoCall
    /\ UNCHANGED <<brk, containers, mem, pushed>>

\* implicit destructor
Destroy(h) ==
    /\ handles[h].live
    /\ handles' = [handles EXCEPT ![h] = NoHandle]
    /\ states' = ReleaseState(states, handles[h].state_)
    /\ arenas' = ReleaseArena(arenas, handles[h].arena_)
    /\ granted' = Forget(granted, arenas')
    /\ last' = NoCall
    /\ UNCHANGED <<brk, containers, mem, pushed>>

Allocate(h, n) ==
    /\ handles[h].live
    /\ LET r == allocate(arenas, states, brk, handles[h], n)
       IN /\ arenas' = r.arenas
          /\ brk' = r.brk
          /\ states' = r.states
          /\ granted' = Record(granted, handles[h].arena_, r)
          /\ last' = [op |-> "allocate", result |-> r.result]
    /\ UNCHANGED <<handles, containers, mem, pushed>>

Deallocate(h, p, n) ==
    /\ handles[h].live
    /\ LET r == deallocate(arenas, states, handles[h], p, n)
       IN /\ arenas' = r.arenas
          /\ states' = r.states
    /\ last' = [op |-> "deallocate", result |-> "ok"]
    /\ UNCHANGED <<handles, granted, brk, containers, mem, pushed>>

Next ==
    \/ \E h \in HandleIds, T \in ConstructTypes, P \in Policies : Construct(h, T, P)
    \/ \E h, g \in HandleIds : CopyConstruct(h, g)
    \/ \E h, g \in HandleIds, T \in HandleTypes : Rebind(h, g, T)
    \/ \E h, g \in HandleIds : CopyAssign(h, g)
    \/ \E h \in HandleIds : Destroy(h)
    \/ \E h \in HandleIds, n \in Counts : Allocate(h, n)
    \/ \E h \in HandleIds, p \in Pointers, n \in Counts : Deallocate(h, p, n)

Spec == Init /\ [][Next]_vars

\* ------------------------- handles of every policy shape and element type
InitialPolicies == {Fixed(2, 1), Fixed(2, 2), Fixed(1, 2), Expandable(1), Expandable(2)}

NextI ==
    \/ \E h \in HandleIds, T \in HandleTypes, P \in InitialPolicies : Construct(h, T, P)
    \/ \E h \in HandleIds : Destroy(h)
    \/ \E h \in HandleIds : Allocate(h, 1)

SpecI == Init /\ [][NextI]_vars

\* ------------------------------------------------------ container programs
ContainerPolicies == {Fixed(2, 8), Expandable(4)}
Values == {1, 2}

FreeContainerId ==
    CHOOSE c \in ContainerIds :
       ~containers[c].live /\ \A d \in ContainerIds : ~containers[d].live => c <= d

\* the program runs until an operation ends it
Running == last.result \notin Fatal

\* the operation when its precondition holds
Checked(defined, r) == IF defined THEN r ELSE [w |-> World, result |-> "undefined"]

\* the world a container operation leaves behind becomes the state
Becomes(r, op) ==
    /\ Running
    /\ arenas' = r.w.arenas
    /\ states' = r.w.states
    /\ brk' = r.w.brk
    /\ granted' = r.w.granted
    /\ containers' = r.w.containers
    /\ mem' = r.w.mem
    /\ pushed' = r.w.pushed
    /\ last' = [op |-> op, result |-> r.result]
    /\ UNCHANGED handles

\* MyContainer<int, MyMapAllocator<int, P>> c;  the default argument Allocator{}
\* is constructed, node_alloc_ is converted from it, the temporary is destroyed
DefaultConstruct(c, P) ==
    /\ ~containers[c].live /\ c = FreeContainerId
    /\ \E a \in ArenaIds : ~arenas[a].live
    /\ \E s \in StateIds : ~states[s].live
    /\ LET buffer == OperatorNew(brk, ArenaBytes("int", P))
           a == FreeArenaId
           s == FreeStateId
           hd == [live |-> TRUE, T |-> "Node", P |-> P, state_ |-> s, arena_ |-> a]
           w == [World EXCEPT
                   !.arenas = add_block([arenas EXCEPT ![a] =
                                  [live |-> TRUE, blocks |-> <<>>,
                                   block_size |-> ArenaBytes("int", P), refs |-> 1]],
                                a, buffer, ArenaBytes("int", P)),
                   !.states = [states EXCEPT ![s] = AllocatorState(P)],
                   !.brk = Sbrk(brk, ArenaBytes("int", P))]
       IN IF buffer = NULL
          THEN Becomes([w |-> World, result |-> "OutOfMemory"], "MyContainer")
          ELSE Becomes([w |-> NewContainer(w, c, "MyMapAllocator", hd), result |-> "ok"],
                       "MyContainer")

\* a build that follows the language rules and one that lets them pass
\* (-fpermissive)
Builds == {"conforming", "permissive"}

\* other.begin() and other.end() with other a const MyContainer&: begin() and
\* end() are not const member functions, so the call is ill-formed; a
\* permissive build calls them all the same
const_begin(build, r) ==
    IF build = "conforming" THEN [w |-> World, result |-> "ill-formed"] ELSE r

\* MyContainer c(other);
CopyConstructContainer(c, other) ==
    /\ ~containers[c].live /\ c = FreeContainerId /\ containers[other].live
    /\ \E build \in Builds :
          Becomes(const_begin(build, copy_construct(World, c, other)), "copy")

PushFront(c, value) ==
    /\ containers[c].live
    /\ Becomes(push_front(World, c, value), "push_front")

PushBack(c, value) ==
    /\ containers[c].live
    /\ Becomes(Checked(push_back_defined(World, c), push_back(World, c, value)), "push_back")

PopFront(c) ==
    /\ containers[c].live
    /\ Becomes(Checked(pop_front_defined(World, c),
                       [w |-> pop_front(World, c), result |-> "ok"]), "pop_front")

Clear(c) ==
    /\ containers[c].live
    /\ Becomes(Checked(clear_defined(World, c),
                       [w |-> clear(World, c), result |-> "ok"]), "clear")

DestroyContainer(c) ==
    /\ containers[c].live
    /\ Becomes(Checked(clear_defined(World, c),
                       [w |-> destroy(World, c), result |-> "ok"]), "~MyContainer")

NextC ==
    \/ \E c \in ContainerIds, P \in ContainerPolicies : DefaultConstruct(c, P)
    \/ \E c, other \in ContainerIds : CopyConstructContainer(c, other)
    \/ \E c \in ContainerIds, value \in Values : PushFront(c, value)
    \/ \E c \in ContainerIds, value \in Values : PushBack(c, value)
    \/ \E c \in ContainerIds : PopFront(c)
    \/ \E c \in ContainerIds : Clear(c)
    \/ \E c \in ContainerIds : DestroyContainer(c)

SpecC == Init /\ [][NextC]_vars

\* ------------------------------------- container programs, every operation
\* MyContainer<int> c;  the Allocator is std::allocator<int>
StdConstruct(c) ==
    /\ ~containers[c].live /\ c = FreeContainerId
    /\ Becomes([w |-> NewContainer(World, c, "std::allocator", StdAllocator), result |-> "ok"],
               "MyContainer")

SameType(c, other) ==
    /\ containers[c].live /\ containers[other].live
    /\ containers[c].Allocator = containers[other].Allocator

\* MyContainer c(std::move(other));
MoveConstructContainer(c, other) ==
    /\ ~containers[c].live /\ c = FreeContainerId /\ containers[other].live
    /\ Becomes(move_construct(World, c, other), "move")

\* c = std::move(other);
MoveAssignContainer(c, other) ==
    /\ SameType(c, other)
    /\ Becomes(move_assign(World, c, other), "move=")

\* c = other;
CopyAssignContainer(c, other) ==
    /\ SameType(c, other)
    /\ \E build \in Builds, config \in Configurations :
          Becomes(const_begin(build, copy_assign(World, c, other, config)), "copy=")

\* c.swap(other);
SwapContainers(c, other) ==
    /\ SameType(c, other)
    /\ \E config \in Configurations : Becomes(assert(config, swap(World, c, other)), "swap")

\* containers can be copied, moved and swapped within one type only: the
\* program works with one MyContainer<int, Allocator> type
OneType(A, P) ==
    \A d \in ContainerIds : containers[d].live =>
       /\ containers[d].Allocator = A
       /\ A = "MyMapAllocator" => containers[d].node_alloc_.P = P

NextM ==
    \/ \E c \in ContainerIds, P \in ContainerPolicies :
          OneType("MyMapAllocator", P) /\ DefaultConstruct(c, P)
    \/ \E c \in ContainerIds : OneType("std::allocator", NoHandle.P) /\ StdConstruct(c)
    \/ \E c, other \in ContainerIds : CopyConstructContainer(c, other)
    \/ \E c, other \in ContainerIds : MoveConstructContainer(c, other)
    \/ \E c, other \in ContainerIds : CopyAssignContainer(c, other)
    \/ \E c, other \in ContainerIds : MoveAssignContainer(c, other)
    \/ \E c, other \in ContainerIds : SwapContainers(c, other)
    \/ \E c \in ContainerIds, value \in Values : PushFront(c, value)
    \/ \E c \in ContainerIds, value \in Values : PushBack(c, value)
    \/ \E c \in ContainerIds : PopFront(c)
    \/ \E c \in ContainerIds : Clear(c)
    \/ \E c \in ContainerIds : DestroyContainer(c)

\* the program starts with one chunk of the free store taken by others
InitM ==
    /\ arenas = [a \in ArenaIds |-> NoArena]
    /\ states = [s \in StateIds |-> NoState]
    /\ handles = [h \in HandleIds |-> NoHandle]
    /\ granted = [a \in ArenaIds |-> {}]
    /\ brk = Sbrk(HeapBase, NewAlign)
    /\ containers = [c \in ContainerIds \cup {TmpId} |-> NoContainer]
    /\ mem = [x \in Addresses |-> NoNode]
    /\ pushed = [s \in StateIds |-> 0]
    /\ last = NoCall

SpecM == InitM /\ [][NextM]_vars

\* ------------------- container programs over two unequal memory resources
Resources == {1, 2}

\* MyContainer<int, std::pmr::polymorphic_allocator<int>> c{&r};
PmrConstruct(c, r) ==
    /\ ~containers[c].live /\ c = FreeContainerId
    /\ Becomes([w |-> NewContainer(World, c, "std::pmr::polymorphic_allocator",
                                   PmrAllocator(r)),
                result |-> "ok"], "MyContainer")

NextP ==
    \/ \E c \in ContainerIds, r \in Resources : PmrConstruct(c, r)
    \/ \E c, other \in ContainerIds : CopyAssignContainer(c, other)
    \/ \E c, other \in ContainerIds : SwapContainers(c, other)
    \/ \E c \in ContainerIds, value \in Values : PushFront(c, value)
    \/ \E c \in ContainerIds, value \in Values : PushBack(c, value)
    \/ \E c \in ContainerIds : PopFront(c)
    \/ \E c \in ContainerIds : Clear(c)
    \/ \E c \in ContainerIds : DestroyContainer(c)

SpecP == InitM /\ [][NextP]_vars

\* ------------------------------------------------------- Arena on its own
BlockSizes == {4, 32}
Sizes == {0, 4, 16, 32, SizeMod - 8}
Alignments == {0, 3, 4, 8, 32}

\* my_allocator::detail::Arena arena(block_size);
ArenaConstruct(a, block_size) ==
    /\ ~arenas[a].live /\ a = FreeArenaId
    /\ LET buffer == OperatorNew(brk, block_size)
       IN IF buffer = NULL
          THEN /\ last' = [op |-> "Arena", result |-> "OutOfMemory",
                           ptr |-> NULL, size |-> 0, alignment |-> 0]
               /\ UNCHANGED <<arenas, brk>>
          ELSE /\ arenas' = add_block([arenas EXCEPT ![a] =
                                [live |-> TRUE, blocks |-> <<>>,
                                 block_size |-> block_size, refs |-> 1]],
                              a, buffer, block_size)
               /\ brk' = Sbrk(brk, block_size)
               /\ last' = [op |-> "Arena", result |-> "ok",
                           ptr |-> NULL, size |-> 0, alignment |-> 0]
    /\ UNCHANGED <<states, handles, granted, containers, mem, pushed>>

\* arena.allocate_bytes(size, alignment);
AllocateBytes(a, size, alignment) ==
    /\ arenas[a].live
    /\ LET r == allocate_bytes(arenas, brk, a, size, alignment)
       IN /\ arenas' = r.arenas
          /\ brk' = r.brk
          /\ granted' = Record(granted, a, [result |-> r.result, ptr |-> r.ptr, size |-> size])
          /\ last' = [op |-> "allocate_bytes", result |-> r.result,
                      ptr |-> r.ptr, size |-> size, alignment |-> alignment]
    /\ UNCHANGED <<states, handles, containers, mem, pushed>>

\* ~Arena()
ArenaDestroy(a) ==
    /\ arenas[a].live
    /\ arenas' = ReleaseArena(arenas, a)
    /\ granted' = Forget(granted, arenas')
    /\ last' = [op |-> "~Arena", result |-> "ok", ptr |-> NULL, size |-> 0, alignment |-> 0]
    /\ UNCHANGED <<states, handles, brk, containers, mem, pushed>>

NextA ==
    \/ \E a \in ArenaIds, block_size \in BlockSizes : ArenaConstruct(a, block_size)
    \/ \E a \in ArenaIds, size \in Sizes, alignment \in Alignments :
          AllocateBytes(a, size, alignment)
    \/ \E a \in ArenaIds : ArenaDestroy(a)

SpecA == Init /\ [][NextA]_vars

\* ============================================================== properties
Live(h) == handles[h].live
StateOf(h) == states[handles[h].state_]
ArenaOf(h) == arenas[handles[h].arena_]
Shares(h, g) == Live(h) /\ Live(g) /\ handles[h].state_ = handles[g].state_
LiveFixedStates == {s \in StateIds : states[s].live /\ states[s].max_elements_ >= 1}
LiveExpandableStates == {s \in StateIds : states[s].live /\ states[s].max_elements_ = 0}

\* C1: under a Fixed policy with ceiling M >= 1 the shared counter never
\* exceeds M, whatever handles of the Allocation State the calls went through.
C1_AllocatedNeverExceedsMax ==
    \A s \in LiveFixedStates : states[s].allocated_ <= states[s].max_elements_

\* two handles share a Fixed state whose counter stands at the ceiling, and the
\* last allocate was refused
C1_Witness ==
    /\ last = [op |-> "allocate", result |-> "AllocationExceeded"]
    /\ \E h, g \in HandleIds :
          /\ h # g /\ Shares(h, g)
          /\ StateOf(h).max_elements_ >= 1
          /\ StateOf(h).allocated_ = StateOf(h).max_elements_

\* C2: allocate(n) on a Fixed handle is granted exactly when allocated + n <=
\* max_elements at the time of the call (the free store permitting): a grant
\* implies the sum is within the ceiling, a sum within the ceiling is never
\* answered with AllocationExceeded, and a grant raises allocated by n; so from
\* a fresh Fixed(M) state M calls allocate(1) pass and the next is refused.
C2_GrantedIffWithinCeiling ==
    [][\A h \in HandleIds, n \in Counts :
          (last'.op = "allocate" /\ IsFixed(handles[h].P) /\ Allocate(h, n)) =>
             LET sum == StateOf(h).allocated_ + n
                 M == StateOf(h).max_elements_
             IN /\ (last'.result = "ok") => sum <= M
                /\ (sum <= M) => last'.result \in {"ok", "OutOfMemory"}
                /\ (last'.result = "ok") =>
                      states'[handles[h].state_].allocated_ = sum
                /\ (n = 1 /\ StateOf(h).allocated_ = M) =>
                      last'.result = "AllocationExceeded"]_vars

\* a Fixed state has been filled to its ceiling by single-element grants only
\* (its Arena holds exactly M ints) and the following call was refused
C2_Witness ==
    /\ last = [op |-> "allocate", result |-> "AllocationExceeded"]
    /\ \E h \in HandleIds :
          /\ Live(h) /\ IsFixed(handles[h].P)
          /\ StateOf(h).allocated_ = handles[h].P.max
          /\ Cardinality(granted[handles[h].arena_]) = handles[h].P.max * SizeOf("int")

\* C3: a Fixed-mode allocate(n) refused with AllocationExceeded leaves the
\* shared counter, the Arena's Blocks and their used marks as they were.
C3_RefusalChangesNothing ==
    [][\A h \in HandleIds, n \in Counts :
          (last' = [op |-> "allocate", result |-> "AllocationExceeded"] /\ Allocate(h, n)) =>
             /\ states' = states
             /\ arenas' = arenas
             /\ granted' = granted
             /\ brk' = brk]_vars

\* a refusal has happened on an Arena that already holds granted memory and
\* whose free store could still have supplied a Block
C3_Witness ==
    /\ last = [op |-> "allocate", result |-> "AllocationExceeded"]
    /\ brk < HeapEnd
    /\ \E a \in ArenaIds :
          /\ arenas[a].live
          /\ \E i \in DOMAIN arenas[a].blocks : arenas[a].blocks[i].used > 0

\* C4: handles made from a common handle by copy construction, copy assignment
\* or rebinding hold the same Allocation State and Arena; a grant of n through
\* one of them raises the count every sharer observes by n; and when the shared
\* Fixed counter stands at the ceiling allocate(1) is refused through each.
C4_SharedState ==
    [][/\ \A h, g \in HandleIds :
             (last' = NoCall /\ (CopyConstruct(h, g) \/ CopyAssign(h, g)
                                   \/ \E T \in HandleTypes : Rebind(h, g, T))) =>
                  /\ handles'[h].state_ = handles'[g].state_
                  /\ handles'[h].arena_ = handles'[g].arena_
                  /\ states'[handles'[h].state_].allocated_ = StateOf(g).allocated_
       /\ \A h \in HandleIds, n \in Counts :
             (last' = [op |-> "allocate", result |-> "ok"] /\ Allocate(h, n)) =>
                \A g \in HandleIds : Shares(h, g) =>
                   states'[handles'[g].state_].allocated_
                      = (StateOf(g).allocated_ + n) % SizeMod
       /\ \A h, g \in HandleIds :
             (Shares(h, g) /\ IsFixed(handles[h].P)
                /\ StateOf(h).allocated_ = StateOf(h).max_elements_) =>
                  allocate(arenas, states, brk, handles[g], 1).result = "AllocationExceeded"
      ]_vars

\* an int handle and a handle rebound to Node share a Fixed state on which
\* grants were made and whose ceiling is reached
C4_Witness ==
    \E h, g \in HandleIds :
       /\ Shares(h, g) /\ handles[h].T # handles[g].T
       /\ IsFixed(handles[h].P)
       /\ StateOf(h).refs = 2
       /\ StateOf(h).allocated_ = StateOf(h).max_elements_

C9_ExpandableNeverRefused ==
    [][\A h \in HandleIds, n \in Counts :
          (last'.op = "allocate" /\ handles[h].P = Expandable(handles[h].P.initial)
             /\ Allocate(h, n)) =>
             /\ last'.result \in {"ok", "OutOfMemory"}
             /\ (last'.result = "OutOfMemory") =>
                   OperatorNew(brk', GrowSize(ArenaOf(h).block_size,
                                              RequestBytes(handles[h].T, n),
                                              AlignOf(handles[h].T))) = NULL]_vars

\* an Expandable(initial) state has granted more elements than initial and its
\* Arena has grown
C9_Witness ==
    /\ last = [op |-> "allocate", result |-> "ok"]
    /\ \E h \in HandleIds :
          /\ Live(h) /\ handles[h].P = Expandable(handles[h].P.initial)
          /\ StateOf(h).allocated_ > handles[h].P.initial
          /\ Len(ArenaOf(h).blocks) >= 2

LiveC(c) == containers[c].live
StateIdOf(c) == containers[c].node_alloc_.state_
FixedC(c) == LiveC(c) /\ containers[c].node_alloc_.P.max # 0
SharesC(c, d) == LiveC(c) /\ LiveC(d) /\ StateIdOf(c) = StateIdOf(d)

\* C5: containers whose allocators share one Fixed(M) Allocation State draw on
\* one ceiling: as long as they have together linked fewer than M nodes (the
\* nodes linked by copy construction included) no push on any of them is
\* refused for capacity, and once they have linked M every push_back and
\* push_front on each of them fails with AllocationExceeded.
C5_SharedCeilingAcrossContainers ==
    \A c \in ContainerIds : FixedC(c) =>
       \A value \in Values :
          LET M == states[StateIdOf(c)].max_elements_
              back == push_back(World, c, value).result
              front == push_front(World, c, value).result
          IN /\ pushed[StateIdOf(c)] >= M =>
                   back = "AllocationExceeded" /\ front = "AllocationExceeded"
             /\ pushed[StateIdOf(c)] < M =>
                   back # "AllocationExceeded" /\ front # "AllocationExceeded"

\* a container and its copy each hold one node of a Fixed(2) budget, none of
\* the two holds M nodes itself, and a push has just been refused
C5_Witness ==
    /\ last.op \in {"push_back", "push_front"} /\ last.result = "AllocationExceeded"
    /\ \E c, d \in ContainerIds :
          /\ c # d /\ SharesC(c, d) /\ FixedC(c)
          /\ containers[c].size_ >= 1 /\ containers[d].size_ >= 1
          /\ containers[c].size_ + containers[d].size_ = states[StateIdOf(c)].max_elements_

C8_DestroyReleasesBudget ==
    [][\A c, d \in ContainerIds :
          (DestroyContainer(c) /\ c # d /\ SharesC(c, d) /\ FixedC(c)) =>
             states'[StateIdOf(d)].allocated_
                = states[StateIdOf(d)].allocated_ - containers[c].size_]_vars

\* ---------------------------------------------------------- Arena claims
\* a MyMapAllocator<T, Policy> whose arena_ is the Arena a
HandleOn(a, T) ==
    [live |-> TRUE, T |-> T, P |-> Expandable(1), state_ |-> 1, arena_ |-> a]

\* C11: every pointer allocate returns for an element type T is a multiple of
\* alignof(T), whatever the address of the Block it is carved from and whatever
\* the Arena has handed out before: the region allocate_bytes has just returned
\* is aligned as asked, and from every reachable Arena state a grant of 1 or 2
\* elements of each type is aligned for that type.
C11_PointersAligned ==
    /\ (last.op = "allocate_bytes" /\ last.result = "ok") =>
          last.ptr % last.alignment = 0
    /\ \A a \in ArenaIds : arenas[a].live =>
          \A T \in TypeNames, n \in {1, 2} :
             LET r == allocate(arenas, states, brk, HandleOn(a, T), n)
             IN r.result = "ok" => r.ptr % AlignOf(T) = 0

\* a region aligned to 32 was carved, after padding, from a Block whose buffer
\* is not a multiple of 32
C11_Witness ==
    /\ last.op = "allocate_bytes" /\ last.result = "ok" /\ last.alignment = AlignOf("BigAligned")
    /\ \E a \in ArenaIds :
          /\ arenas[a].live
          /\ \E i \in DOMAIN arenas[a].blocks :
                /\ arenas[a].blocks[i].buffer % last.alignment # 0
                /\ arenas[a].blocks[i].buffer < last.ptr
                /\ last.ptr + last.size = arenas[a].blocks[i].buffer + arenas[a].blocks[i].used

\* C12: two handles compare equal exactly when they reference the same Arena.
\* A handle made by copy construction, copy assignment or rebinding compares
\* equal to the handle it was made from, and a handle constructed on its own
\* compares unequal to every other handle, also to one of the same Policy.
C12_EqualityIsArenaIdentity ==
    [][/\ last' = NoCall =>
             \A h, g \in HandleIds :
                (CopyConstruct(h, g) \/ CopyAssign(h, g)
                   \/ \E T \in HandleTypes : Rebind(h, g, T)) =>
                      Equals(handles'[h], handles'[g]) /\ Equals(handles'[g], handles'[h])
       /\ last' = [op |-> "construct", result |-> "ok"] =>
             \A h \in HandleIds, T \in ConstructTypes, P \in Policies :
                Construct(h, T, P) =>
                   \A g \in HandleIds :
                      (g # h /\ handles'[g].live) => ~Equals(handles'[h], handles'[g])
       /\ \A h, g \in HandleIds :
             (handles'[h].live /\ handles'[g].live) =>
                (Equals(handles'[h], handles'[g])
                   <=> handles'[h].arena_ = handles'[g].arena_)
      ]_vars

\* two handles of the same element type and the same Policy, each constructed
\* on its own, exist side by side
C12_Witness ==
    /\ last = [op |-> "construct", result |-> "ok"]
    /\ \E h, g \in HandleIds :
          /\ h # g /\ Live(h) /\ Live(g)
          /\ handles[h].T = handles[g].T /\ handles[h].P = handles[g].P
          /\ ~Equals(handles[h], handles[g])

\* --------------------------------------------------- the list a container is
\* begin() == end()
IsEmptyState(c) ==
    /\ containers[c].size_ = 0
    /\ containers[c].head_ = Sentinel(c)
    /\ containers[c].tail_ = Sentinel(c)

\* for (auto it = begin(); it != end(); ++it) *it : the values met on the way
\* from p to stop; -1 stands for a walk that meets no object or does not end
RECURSIVE Walk(_, _, _, _)
Walk(w, p, stop, fuel) ==
    IF p = stop THEN <<>>
    ELSE IF fuel = 0 \/ ~w.mem[p].ok THEN <<-1>>
    ELSE <<w.mem[p].value>> \o Walk(w, w.mem[p].next, stop, fuel - 1)

Elements(w, c) ==
    Walk(w, w.containers[c].head_, Sentinel(c), Cardinality(Addresses))

\* C13: in every state reached by push_front, push_back, pop_front, clear,
\* copy and move construction, copy and move assignment and swap, every
\* container with size 0 has head and tail at its own sentinel and every
\* container with size > 0 has tail.next at its own sentinel.
C13_StructuralInvariant ==
    Running =>
       \A c \in ContainerIds : containers[c].live =>
          /\ containers[c].size_ = 0 =>
                containers[c].head_ = Sentinel(c) /\ containers[c].tail_ = Sentinel(c)
          /\ containers[c].size_ > 0 =>
                mem[containers[c].tail_].next = Sentinel(c)

\* C14: the container is the abstract sequence its operations describe.  A new
\* container is the empty sequence; a successful push_back(v) appends v, a
\* successful push_front(v) puts v first, pop_front drops the first element
\* (and does nothing to the empty sequence); no other container's sequence
\* changes; and size() is the length of what iteration from begin() to end()
\* yields.
C14_AbstractSequence ==
    [][/\ last' = [op |-> "MyContainer", result |-> "ok"] =>
             \A c \in ContainerIds, P \in ContainerPolicies :
                DefaultConstruct(c, P) => Elements(World', c) = <<>>
       /\ last' = [op |-> "push_back", result |-> "ok"] =>
             \A c \in ContainerIds, value \in Values :
                PushBack(c, value) =>
                   Elements(World', c) = Append(Elements(World, c), value)
       /\ last' = [op |-> "push_front", result |-> "ok"] =>
             \A c \in ContainerIds, value \in Values :
                PushFront(c, value) =>
                   Elements(World', c) = <<value>> \o Elements(World, c)
       /\ last'.op = "pop_front" =>
             \A c \in ContainerIds :
                PopFront(c) =>
                   Elements(World', c) = IF Elements(World, c) = <<>> THEN <<>>
                                         ELSE Tail(Elements(World, c))
       /\ last'.op \in {"push_back", "push_front", "pop_front"} =>
             \A c \in ContainerIds :
                (PopFront(c) \/ \E value \in Values : PushBack(c, value) \/ PushFront(c, value)) =>
                   \A d \in ContainerIds \ {c} :
                      LiveC(d) => Elements(World', d) = Elements(World, d)
       /\ \A c \in ContainerIds :
             containers'[c].live =>
                /\ containers'[c].size_ = Len(Elements(World', c))
                /\ \A i \in DOMAIN Elements(World', c) : Elements(World', c)[i] \in Values
      ]_vars

\* push_front has put 1 before the 2 that was there: the container reads 1, 2
C14_Witness ==
    /\ last = [op |-> "push_front", result |-> "ok"]
    /\ \E c \in ContainerIds :
          LiveC(c) /\ containers[c].size_ = 2 /\ Elements(World, c) = <<1, 2>>

\* C15: a push_back or push_front that the allocator refuses (AllocationExceeded
\* or OutOfMemory) leaves the container as it was before the call: the same
\* size, head and tail, the same nodes and the same element sequence; the other
\* containers are untouched as well.
C15_FailedPushChangesNothing ==
    [][(last'.op \in {"push_back", "push_front"}
          /\ last'.result \in {"AllocationExceeded", "OutOfMemory"}) =>
             /\ containers' = containers
             /\ mem' = mem
             /\ \A c \in ContainerIds :
                   LiveC(c) => Elements(World', c) = Elements(World, c)]_vars

\* the free store ran out under a push_back on a container that holds elements
C15_Witness ==
    /\ last = [op |-> "push_back", result |-> "OutOfMemory"]
    /\ \E c \in ContainerIds :
          /\ LiveC(c) /\ ~FixedC(c)
          /\ containers[c].size_ >= 1
          /\ push_back(World, c, 1).result = "OutOfMemory"

\* C16: move construction of a MyContainer bound to a MyMapAllocator handle is
\* the O(1) ownership transfer: it ends normally whatever is left of the
\* budget, the handle of the new container compares equal to the handle left
\* in the source, and no allocate call was made (the allocated counters and the
\* used offsets of all Blocks are what they were).
C16_MoveConstructTransfersOwnership ==
    [][last'.op = "move" =>
         \A c, other \in ContainerIds :
            (/\ containers[other].live
             /\ containers[other].Allocator = "MyMapAllocator"
             /\ MoveConstructContainer(c, other)) =>
                /\ last'.result = "ok"
                /\ Equals(containers'[c].node_alloc_, containers'[other].node_alloc_)
                /\ \A s \in StateIds : states'[s].allocated_ = states[s].allocated_
                /\ arenas' = arenas]_vars

\* C17: when a move construction or a move assignment from another container
\* has returned, the source is in the canonical Empty state: size() is 0,
\* empty() is true, begin() == end(), and head_ and tail_ are the source's own
\* sentinel.
C17_MovedFromIsEmpty ==
    [][(last'.op \in {"move", "move="} /\ last'.result = "ok") =>
         \A c, other \in ContainerIds :
            (/\ c # other
             /\ \/ MoveConstructContainer(c, other)
                \/ MoveAssignContainer(c, other)) =>
                /\ containers'[other].live
                /\ containers'[other].size_ = 0
                /\ empty(World', other)
                /\ containers'[other].head_ = Sentinel(other)
                /\ containers'[other].tail_ = Sentinel(other)
                /\ Elements(World', other) = <<>>]_vars

\* C18: after a move construction in which the handle of the new container
\* compares equal to the handle left in the source (std::allocator always
\* does), the new container holds the sequence the source held before: size()
\* is the source's former size and iteration from begin() to end() yields the
\* former elements in their order; an empty source gives an empty container.
C18_MoveConstructKeepsSequence ==
    [][(last'.op = "move" /\ last'.result = "ok") =>
         \A c, other \in ContainerIds :
            (/\ containers[other].live
             /\ MoveConstructContainer(c, other)
             /\ alloc_equal(containers'[c].Allocator, containers'[c].node_alloc_,
                            containers'[other].node_alloc_)) =>
                /\ containers'[c].size_ = containers[other].size_
                /\ Elements(World', c) = Elements(World, other)
                /\ containers[other].size_ = 0 => IsEmptyState(c)']_vars

\* C19: a copy construction that the allocator does not refuse yields a
\* container whose element sequence and size are the source's and leaves the
\* source as it was; the two are independent in storage: a later push_front,
\* push_back, pop_front or clear on one container leaves the sequence of every
\* other container unchanged.
C19_CopyIsEqualAndIndependent ==
    [][/\ (last'.op = "copy"
             /\ last'.result \notin {"AllocationExceeded", "OutOfMemory"}) =>
            \A c, other \in ContainerIds :
               (containers[other].live /\ CopyConstructContainer(c, other)) =>
                  /\ last'.result = "ok"
                  /\ containers'[c].live
                  /\ containers'[c].size_ = containers[other].size_
                  /\ Elements(World', c) = Elements(World, other)
                  /\ containers'[other] = containers[other]
                  /\ Elements(World', other) = Elements(World, other)
       /\ last'.op \in {"push_front", "push_back", "pop_front", "clear"} =>
            \A c, d \in ContainerIds :
               (/\ c # d /\ LiveC(c) /\ LiveC(d)
                /\ \/ \E value \in Values : PushFront(c, value) \/ PushBack(c, value)
                   \/ PopFront(c)
                   \/ Clear(c)) =>
                  Elements(World', d) = Elements(World, d)]_vars

\* C20: for two distinct containers whose allocator propagates on swap or
\* whose handles compare equal, swap exchanges the contents: each container
\* then holds the element sequence and the size the other held (and the
\* handles are exchanged when the allocator propagates), the iteration of each
\* ends at its own end(), no allocate call is made, and a second swap restores
\* both containers.
C20_SwapExchangesContents ==
    [][last'.op = "swap" =>
         \A c, other \in ContainerIds :
            (/\ c # other
             /\ SwapContainers(c, other)
             /\ \/ propagate_on_container_swap(containers[c].Allocator)
                \/ alloc_equal(containers[c].Allocator, containers[c].node_alloc_,
                               containers[other].node_alloc_)) =>
                /\ last'.result = "ok"
                /\ containers'[c].size_ = containers[other].size_
                /\ containers'[other].size_ = containers[c].size_
                /\ Elements(World', c) = Elements(World, other)
                /\ Elements(World', other) = Elements(World, c)
                /\ propagate_on_container_swap(containers[c].Allocator) =>
                      /\ containers'[c].node_alloc_ = containers[other].node_alloc_
                      /\ containers'[other].node_alloc_ = containers[c].node_alloc_
                /\ states' = states /\ arenas' = arenas /\ brk' = brk
                /\ swap(World', c, other).w = World]_vars

\* C21: a swap of two distinct containers whose allocator does not propagate
\* on swap and whose handles compare unequal is a fatal precondition violation
\* (IllegalSwap): the call never returns normally.
C21_IllegalSwapFailsFast ==
    [][last'.op = "swap" =>
         \A c, other \in ContainerIds :
            (/\ c # other
             /\ SwapContainers(c, other)
             /\ ~propagate_on_container_swap(containers[c].Allocator)
             /\ ~alloc_equal(containers[c].Allocator, containers[c].node_alloc_,
                             containers[other].node_alloc_)) =>
                last'.result = "IllegalSwap"]_vars

\* iterator::operator++ applied n times to an iterator at p; NULL stands for an
\* increment that reads no object
RECURSIVE advance(_, _, _)
advance(w, p, n) ==
    IF n = 0 THEN p
    ELSE IF p = NULL \/ ~w.mem[p].ok THEN NULL
    ELSE advance(w, w.mem[p].next, n - 1)

\* C22: in every container state an iterator advanced size() times from
\* begin() equals end(), and further increments leave it equal to end().
C22_EndIsAbsorbing ==
    Running =>
       \A c \in ContainerIds : containers[c].live =>
          /\ advance(World, containers[c].head_, containers[c].size_) = Sentinel(c)
          /\ advance(World, Sentinel(c), 1) = Sentinel(c)
          /\ advance(World, Sentinel(c), 2) = Sentinel(c)

\* the nodes for (auto it = begin(); it != end(); ++it) visits; NULL stands for
\* a walk that meets no object or does not end
RECURSIVE Visited(_, _, _, _)
Visited(w, p, stop, fuel) ==
    IF p = stop THEN <<>>
    ELSE IF fuel = 0 \/ ~w.mem[p].ok THEN <<NULL>>
    ELSE <<p>> \o Visited(w, w.mem[p].next, stop, fuel - 1)

NodesOf(c) ==
    LET v == Visited(World, containers[c].head_, Sentinel(c), Cardinality(Addresses))
    IN {v[i] : i \in DOMAIN v}

\* C23: in every state reached by the container operations, copy, move and
\* swap included, following the next links from begin() reaches the
\* container's own end() after exactly size() steps, and the nodes visited are
\* nodes of that container only.
C23_IterationEndsAtOwnEnd ==
    Running =>
       \A c \in ContainerIds : containers[c].live =>
          /\ NULL \notin NodesOf(c)
          /\ Cardinality(NodesOf(c)) = containers[c].size_
          /\ \A p \in NodesOf(c) : IsNode(World, p)
          /\ \A d \in ContainerIds :
                (d # c /\ containers[d].live) => NodesOf(c) \cap NodesOf(d) = {}

\* C24: clear() ends from every reachable container state and leaves the
\* container in the canonical Empty state (size() 0, empty(), begin() ==
\* end()); a pop_front that removes the last remaining element leaves the same
\* Empty state, tail_ reset to the sentinel.
C24_ClearLeavesEmpty ==
    [][/\ last'.op = "clear" =>
            \A c \in ContainerIds :
               (LiveC(c) /\ Clear(c)) =>
                  /\ last'.result = "ok"
                  /\ IsEmptyState(c)'
                  /\ empty(World', c)
       /\ last'.op = "pop_front" =>
            \A c \in ContainerIds :
               (LiveC(c) /\ containers[c].size_ = 1 /\ PopFront(c)) =>
                  /\ last'.result = "ok"
                  /\ IsEmptyState(c)'
                  /\ empty(World', c)]_vars

\* C25: pop_front on a container in the Empty state is a no-op: it returns
\* normally and leaves size (0), head_, tail_, the link of the sentinel and
\* the state of the allocator as they were.
C25_PopFrontOnEmptyIsNoOp ==
    [][last'.op = "pop_front" =>
         \A c \in ContainerIds :
            (LiveC(c) /\ IsEmptyState(c) /\ PopFront(c)) =>
               /\ last'.result = "ok"
               /\ containers'[c] = containers[c]
               /\ containers'[c].size_ = 0
               /\ mem'[Sentinel(c)] = mem[Sentinel(c)]
               /\ states' = states /\ arenas' = arenas /\ brk' = brk]_vars

\* pop_front was called on the only container there is, which never held an
\* element
C25_Witness ==
    /\ last = [op |-> "pop_front", result |-> "ok"]
    /\ LiveC(1) /\ ~LiveC(2) /\ IsEmptyState(1)
    /\ mem[Sentinel(1)].next = Sentinel(1)
    /\ containers[1].Allocator = "MyMapAllocator"
    /\ StateIdOf(1) # NULL
    /\ states[StateIdOf(1)].allocated_ = 0
    /\ \A x \in Addresses : x >= HeapBase => ~mem[x].ok

\* the handles that hold a share of Arena a, of Allocation State s
HandlesOn(a) == {h \in HandleIds : handles[h].live /\ handles[h].arena_ = a}
HandlesOnState(s) == {h \in HandleIds : handles[h].live /\ handles[h].state_ = s}

\* C26: an Arena and its Allocation State are alive exactly as long as a handle
\* derived by copy or rebind from the original one exists.  While a handle
\* remains no Block is freed and every region handed out stays in place; the
\* step that destroys the last handle releases both.
C26_SharedLifetime ==
    [][/\ \A a \in ArenaIds :
            /\ arenas'[a].live <=> HandlesOn(a)' # {}
            /\ arenas'[a].live => arenas'[a].refs = Cardinality(HandlesOn(a)')
            /\ (arenas[a].live /\ HandlesOn(a)' # {}) =>
                  /\ Len(arenas'[a].blocks) >= Len(arenas[a].blocks)
                  /\ \A i \in DOMAIN arenas[a].blocks :
                        /\ arenas'[a].blocks[i].buffer = arenas[a].blocks[i].buffer
                        /\ arenas'[a].blocks[i].capacity = arenas[a].blocks[i].capacity
                  /\ granted[a] \subseteq granted'[a]
       /\ \A s \in StateIds :
            /\ states'[s].live <=> HandlesOnState(s)' # {}
            /\ states'[s].live => states'[s].refs = Cardinality(HandlesOnState(s)')
            /\ (states[s].live /\ HandlesOnState(s)' # {}) =>
                  states'[s].allocated_ >= states[s].allocated_]_vars

\* the original handle is gone; the handle rebound from it keeps the Arena, in
\* which a region was handed out
C26_Witness ==
    /\ ~Live(1) /\ Live(2) /\ handles[2].T = "Node"
    /\ ArenaOf(2).live /\ ArenaOf(2).refs = 1
    /\ StateOf(2).live /\ StateOf(2).allocated_ >= 1
    /\ granted[handles[2].arena_] # {}

\* C27: for every size and every power-of-two alignment allocate_bytes ends
\* after appending at most one Block, and when it has appended one the retry on
\* that Block succeeds.
C27_AtMostOneNewBlock ==
    [][(last'.op = "allocate_bytes" /\ ~BadAlignment(last'.alignment)) =>
         \A a \in ArenaIds :
            (arenas[a].live /\ AllocateBytes(a, last'.size, last'.alignment)) =>
               /\ Len(arenas'[a].blocks) <= Len(arenas[a].blocks) + 1
               /\ Len(arenas'[a].blocks) = Len(arenas[a].blocks) + 1 =>
                     last'.result = "ok"]_vars

\* C28: the ceiling of a Fixed policy holds under machine-width arithmetic: an
\* allocate(n) whose true sum allocated + n exceeds max_elements is rejected,
\* also when allocated + n or n * sizeof(T) wraps, and the rejection appends no
\* Block, changes no used offset and leaves allocated as it was.
C28_CeilingSoundUnderWrap ==
    [][last'.op = "allocate" =>
         \A h \in HandleIds, n \in Counts :
            (/\ Live(h) /\ IsFixed(handles[h].P)
             /\ StateOf(h).allocated_ + n > StateOf(h).max_elements_
             /\ Allocate(h, n)) =>
                /\ last'.result # "ok"
                /\ arenas' = arenas
                /\ states' = states]_vars

\* the powers of two a size_t can hold
PowersOfTwo == {2 ^ k : k \in 0 .. WordBits - 1}

\* C29: allocate_bytes called with an alignment that is zero or not a power of
\* two fails with InvalidAlignment before it touches the Arena: the number of
\* Blocks and the used offset of every Block are unchanged.
C29_InvalidAlignmentChangesNothing ==
    [][(last'.op = "allocate_bytes" /\ last'.alignment \notin PowersOfTwo) =>
          /\ last'.result = "InvalidAlignment"
          /\ last'.ptr = NULL
          /\ arenas' = arenas
          /\ brk' = brk
          /\ granted' = granted]_vars

\* an alignment of 3 was refused on an Arena that has handed out a region
C29_Witness ==
    /\ last.op = "allocate_bytes" /\ last.result = "InvalidAlignment" /\ last.alignment = 3
    /\ \E a \in ArenaIds :
          /\ arenas[a].live /\ granted[a] # {}
          /\ allocate_bytes(arenas, brk, a, last.size, last.alignment).result = "InvalidAlignment"

\* C30: in every Arena state each Block has used <= capacity, the used offset
\* of a Block never decreases, and a region allocate_bytes returns lies inside
\* the buffer of one Block and below its new used mark: buffer <= ptr and
\* ptr + size <= buffer + used <= buffer + capacity.
C30_UsedWithinCapacity ==
    [][\A a \in ArenaIds : arenas'[a].live =>
          /\ \A i \in DOMAIN arenas'[a].blocks :
                arenas'[a].blocks[i].used <= arenas'[a].blocks[i].capacity
          /\ arenas[a].live =>
                \A i \in DOMAIN arenas[a].blocks :
                   /\ i \in DOMAIN arenas'[a].blocks
                   /\ arenas'[a].blocks[i].used >= arenas[a].blocks[i].used
          /\ (/\ last'.op = "allocate_bytes" /\ last'.result = "ok"
              /\ arenas[a].live
              /\ AllocateBytes(a, last'.size, last'.alignment)) =>
                \E i \in DOMAIN arenas'[a].blocks :
                   LET b == arenas'[a].blocks[i]
                   IN /\ b.buffer <= last'.ptr
                      /\ last'.ptr + last'.size <= b.buffer + b.used
                      /\ b.buffer + b.used <= b.buffer + b.capacity]_vars

\* a region was carved behind an earlier one in a Block that is now full
C30_Witness ==
    /\ last.op = "allocate_bytes" /\ last.result = "ok" /\ last.size > 0
    /\ \E a \in ArenaIds :
          /\ arenas[a].live
          /\ \E i \in DOMAIN arenas[a].blocks :
                LET b == arenas[a].blocks[i]
                IN /\ b.buffer < last.ptr
                   /\ last.ptr + last.size = b.buffer + b.used
                   /\ b.used = b.capacity

\* C31: the Arena is append-only.  A live Arena has at least one Block; while it
\* lives its Blocks keep their place, buffer and capacity and their number never
\* decreases; a region allocate_bytes returns lies in the Block that is last
\* after the call; and allocate_bytes changes the used offset of no Block other
\* than that last one.
C31_AppendOnly ==
    [][\A a \in ArenaIds : arenas'[a].live =>
          /\ Len(arenas'[a].blocks) >= 1
          /\ arenas[a].live =>
                /\ Len(arenas'[a].blocks) >= Len(arenas[a].blocks)
                /\ \A i \in DOMAIN arenas[a].blocks :
                      /\ arenas'[a].blocks[i].buffer = arenas[a].blocks[i].buffer
                      /\ arenas'[a].blocks[i].capacity = arenas[a].blocks[i].capacity
                      /\ i < Len(arenas'[a].blocks) =>
                            arenas'[a].blocks[i].used = arenas[a].blocks[i].used
          /\ (/\ last'.op = "allocate_bytes" /\ last'.result = "ok"
              /\ arenas[a].live
              /\ AllocateBytes(a, last'.size, last'.alignment)) =>
                LET b == arenas'[a].blocks[Len(arenas'[a].blocks)]
                IN /\ b.buffer <= last'.ptr
                   /\ last'.ptr + last'.size <= b.buffer + b.capacity]_vars

\* a request the first Block could not serve was carved from a second Block,
\* and the first Block still shows the region handed out before
C31_Witness ==
    /\ last.op = "allocate_bytes" /\ last.result = "ok" /\ last.size > 0
    /\ \E a \in ArenaIds :
          /\ arenas[a].live /\ Len(arenas[a].blocks) = 2
          /\ arenas[a].blocks[1].used > 0
          /\ arenas[a].blocks[2].buffer <= last.ptr
          /\ arenas[a].blocks[2].used = last.size

\* what is left of the first Block of the Arena of handle h
InitialRemainder(h) == ArenaOf(h).blocks[1].capacity - ArenaOf(h).blocks[1].used

\* C32: the Fixed ceiling counts the element units asked for.  allocate(n)
\* through a handle rebound to the larger type Node, with allocated + n within
\* the ceiling, is not refused by the ceiling (it is granted, the free store
\* permitting), a grant raises the shared counter by exactly n whatever
\* sizeof(Node) is, and when n * sizeof(Node) exceeds what is left of the
\* initial Block the grant comes from a Block appended by the call.
C32_CeilingCountsElementUnits ==
    [][last'.op = "allocate" =>
         \A h \in HandleIds, n \in Counts :
            (/\ Live(h) /\ IsFixed(handles[h].P) /\ handles[h].T = "Node"
             /\ StateOf(h).allocated_ + n <= StateOf(h).max_elements_
             /\ Allocate(h, n)) =>
                /\ last'.result \in {"ok", "OutOfMemory"}
                /\ last'.result = "OutOfMemory" =>
                      OperatorNew(brk, GrowSize(ArenaOf(h).block_size,
                                                RequestBytes("Node", n),
                                                AlignOf("Node"))) = NULL
                /\ last'.result = "ok" =>
                      /\ states'[handles[h].state_].allocated_ = StateOf(h).allocated_ + n
                      /\ \A g \in HandleIds : Shares(h, g) =>
                            states'[handles'[g].state_].allocated_ =
                               StateOf(g).allocated_ + n
                      /\ RequestBytes("Node", n) > InitialRemainder(h) =>
                            Len(arenas'[handles[h].arena_].blocks) > 1]_vars

\* a handle rebound to Node shares the state of a Fixed handle for int whose
\* initial Block holds one int; one Node was granted from an appended Block and
\* took one unit of the budget of two
C32_Witness ==
    /\ last = [op |-> "allocate", result |-> "ok"]
    /\ \E h, g \in HandleIds :
          /\ Shares(h, g) /\ handles[h].T = "Node" /\ handles[g].T = "int"
          /\ IsFixed(handles[h].P)
          /\ StateOf(g).allocated_ = 1 /\ StateOf(g).max_elements_ = 2
          /\ Len(ArenaOf(h).blocks) = 2
          /\ ArenaOf(h).blocks[1].capacity < SizeOf("Node")
          /\ ArenaOf(h).blocks[1].used = 0
          /\ ArenaOf(h).blocks[2].used = SizeOf("Node")

\* C33 as stated: the Arena of a Fixed handle starts with one Block of
\* max_elements * sizeof(T) bytes whatever initial is, the Arena of an
\* Expandable handle with one Block of initial * sizeof(T) bytes.
C33_InitialBlockFromMax ==
    [][last' = [op |-> "construct", result |-> "ok"] =>
         \A h \in HandleIds : (~handles[h].live /\ handles'[h].live) =>
            LET hd == handles'[h]
                ar == arenas'[hd.arena_]
            IN /\ Len(ar.blocks) = 1
               /\ ar.blocks[1].capacity =
                     (IF IsFixed(hd.P) THEN hd.P.max ELSE hd.P.initial) * SizeOf(hd.T)]_vars

\* C33, amended: the Arena of every handle, Fixed or Expandable, starts with
\* one unused Block of initial * sizeof(T) bytes, which is also its default
\* block size; for a Fixed handle this is max_elements * sizeof(T) exactly when
\* initial = max.
C33_InitialBlockFromInitial ==
    [][last' = [op |-> "construct", result |-> "ok"] =>
         \A h \in HandleIds : (~handles[h].live /\ handles'[h].live) =>
            LET hd == handles'[h]
                ar == arenas'[hd.arena_]
            IN /\ Len(ar.blocks) = 1
               /\ ar.blocks[1].capacity = hd.P.initial * SizeOf(hd.T)
               /\ ar.blocks[1].used = 0
               /\ ar.block_size = hd.P.initial * SizeOf(hd.T)
               /\ IsFixed(hd.P) =>
                     (ar.blocks[1].capacity = hd.P.max * SizeOf(hd.T)
                         <=> hd.P.initial = hd.P.max)]_vars

\* a Fixed handle with max 2 and initial 1 was constructed for int: its Arena
\* starts with 4 bytes, not 8
C33_Witness ==
    /\ last = [op |-> "construct", result |-> "ok"]
    /\ \E h \in HandleIds :
          /\ Live(h) /\ handles[h].P = Fixed(2, 1) /\ handles[h].T = "int"
          /\ ArenaOf(h).refs = 1
          /\ Len(ArenaOf(h).blocks) = 1
          /\ ArenaOf(h).blocks[1].capacity = 4
          /\ StateOf(h).max_elements_ = 2 /\ StateOf(h).allocated_ = 0

\* C34: a copy assignment c = other between distinct containers whose allocator
\* propagates on copy assignment, when the allocator refuses no node, ends with
\* c's handle equal to other's, c's element sequence and size those of other,
\* other as it was and the nodes c held before destroyed; the state the two
\* then share has counted other.size() further units.
C34_CopyAssignPropagating ==
    [][(last'.op = "copy="
          /\ last'.result \notin {"AllocationExceeded", "OutOfMemory"}) =>
         \A c, other \in ContainerIds :
            (/\ c # other /\ LiveC(c) /\ LiveC(other)
             /\ propagate_on_container_copy_assignment(containers[c].Allocator)
             /\ CopyAssignContainer(c, other)) =>
                /\ last'.result = "ok"
                /\ Equals(containers'[c].node_alloc_, containers'[other].node_alloc_)
                /\ containers'[c].node_alloc_.state_ = StateIdOf(other)
                /\ containers'[c].size_ = containers[other].size_
                /\ Elements(World', c) = Elements(World, other)
                /\ containers'[other] = containers[other]
                /\ Elements(World', other) = Elements(World, other)
                /\ \A x \in NodesOf(c) : x # NULL => ~mem'[x].ok
                /\ StateIdOf(other) # NULL
                /\ states'[StateIdOf(other)].allocated_ =
                      states[StateIdOf(other)].allocated_ + containers[other].size_]_vars

\* C35: a copy assignment c = other between distinct containers whose allocator
\* does not propagate on copy assignment and whose handles compare unequal
\* builds a temporary copy of other and exchanges it in: it never ends in a
\* precondition violation; when it succeeds c's element sequence and size are
\* those of other; when building the copy fails c is left exactly as it was.
C35_CopyAssignByTemporary ==
    [][last'.op = "copy=" =>
         \A c, other \in ContainerIds :
            (/\ c # other /\ LiveC(c) /\ LiveC(other)
             /\ ~propagate_on_container_copy_assignment(containers[c].Allocator)
             /\ ~alloc_equal(containers[c].Allocator, containers[c].node_alloc_,
                             containers[other].node_alloc_)
             /\ CopyAssignContainer(c, other)) =>
                /\ last'.result \in {"ok", "AllocationExceeded", "OutOfMemory"}
                /\ last'.result = "ok" =>
                      /\ Elements(World', c) = Elements(World, other)
                      /\ containers'[c].size_ = containers[other].size_
                /\ last'.result \in {"AllocationExceeded", "OutOfMemory"} =>
                      /\ containers'[c] = containers[c]
                      /\ Elements(World', c) = Elements(World, c)]_vars

\* C36: a move assignment c = std::move(other) between distinct containers
\* whose allocator propagates on move assignment destroys the nodes c held,
\* leaves c's handle on the Arena other's handle referenced, gives c the
\* element sequence and the size other had, with the iteration of c ending at
\* c's own end(), and makes no allocate call.
C36_MoveAssignPropagating ==
    [][last'.op = "move=" =>
         \A c, other \in ContainerIds :
            (/\ c # other /\ LiveC(c) /\ LiveC(other)
             /\ propagate_on_container_move_assignment(containers[c].Allocator)
             /\ MoveAssignContainer(c, other)) =>
                /\ last'.result = "ok"
                /\ \A x \in NodesOf(c) : x # NULL => ~mem'[x].ok
                /\ containers'[c].node_alloc_.arena_ = containers[other].node_alloc_.arena_
                /\ containers'[c].size_ = containers[other].size_
                /\ Elements(World', c) = Elements(World, other)
                /\ advance(World', containers'[c].head_, containers'[c].size_) = Sentinel(c)
                /\ brk' = brk
                /\ \A s \in StateIds :
                      states'[s].live => states'[s].allocated_ = states[s].allocated_]_vars

\* C37: in every state of every container empty() and size() agree: empty(),
\* computed from head_ and the sentinel, is true exactly when size(), the
\* counter, is 0; also for a container made by move construction, move
\* assignment or swap from or with an empty container.
C37_EmptyAgreesWithSize ==
    Running =>
       \A c \in ContainerIds :
          LiveC(c) => (empty(World, c) <=> containers[c].size_ = 0)

\* the handle of container c references an Arena and an Allocation State that
\* are alive
HandleIsLive(c) ==
    /\ containers[c].node_alloc_.state_ # NULL
    /\ containers[c].node_alloc_.arena_ # NULL
    /\ states[containers[c].node_alloc_.state_].live
    /\ arenas[containers[c].node_alloc_.arena_].live

\* C38: every container that exists holds an allocator handle on a live Arena
\* and a live Allocation State, also after it was the source of a move
\* construction or a move assignment; a push_back or push_front on such a
\* source, which the move left empty, allocates normally: it succeeds or it
\* fails with AllocationExceeded (or OutOfMemory from the free store).
C38_HandleAlwaysLive ==
    [][/\ Running' =>
            \A c \in ContainerIds :
               (LiveC(c)' /\ containers'[c].Allocator = "MyMapAllocator") =>
                  HandleIsLive(c)'
       /\ last'.op \in {"push_back", "push_front"} =>
            \A c \in ContainerIds :
               (/\ LiveC(c) /\ IsEmptyState(c)
                /\ containers[c].Allocator = "MyMapAllocator"
                /\ \E value \in Values : PushBack(c, value) \/ PushFront(c, value)) =>
                   last'.result \in {"ok", "AllocationExceeded", "OutOfMemory"}]_vars

\* C39: in every state every node the iteration of a container meets was
\* allocated from the Arena the container's current handle references, and
\* that Arena is alive: no node of a container outlives its Arena while the
\* container exists; also after copy assignment, move construction, move
\* assignment and swap.
C39_NodesFromOwnArena ==
    Running =>
       \A c \in ContainerIds :
          (LiveC(c) /\ containers[c].Allocator = "MyMapAllocator") =>
             \A x \in NodesOf(c) :
                (x # NULL /\ x >= HeapBase) =>
                   /\ HandleIsLive(c)
                   /\ InArena(arenas[containers[c].node_alloc_.arena_], x)
                   /\ x \in granted[containers[c].node_alloc_.arena_]

====
